---- MODULE Spec2Model ----
(***************************************************************************)
(* Model of the NeuroVas feedback loop (src/app.py): the Streamlit session *)
(* state, the three button handlers, the feedback timer and the reset.     *)
(* One action is one script run triggered by one user event (or one        *)
(* second of the blocking countdown).                                      *)
(***************************************************************************)
EXTENDS Integers, Sequences, FiniteSets, TLC

\* ------------------------------------------------------------------ bounds
MaxLoop == 2        \* Worsened/NoChange continuations are explored while loop < MaxLoop
MaxLog  == 2        \* comparisons are explored while the log is shorter than MaxLog
MaxCalls == 2       \* calls of the utility functions on one argument tuple

\* --------------------------------------------------------- program constants
None == -1                       \* Python None of stage_before / rpi_before
MaxStage == 3                    \* "Predicted varicose stage (0-3)"
FeedbackSeconds == 30            \* range(30, 0, -1)
HrvMin == 0                      \* number_input min_value
HrvMax == 200                    \* number_input max_value
HrvLow == 20
HrvHigh == 120
HrvPenaltyBelow == 50
RpiMax == 100
RelaxedBelow == 35

EmgOptions == {"normal", "overactive", "underactive"}
PostureOptions == {"aligned", "lean_left", "lean_right", "slouched"}
\* number_input(min 0, max 200): the values the operator enters, on and around
\* every threshold the code tests
HrvValues == {15, 20, 50, 125}
\* the postures the operator selects in a session; no branch of a handler reads the posture
PostureValues == {"aligned", "slouched"}
Stages == 0..MaxStage

VARIABLES
    loop,                \* st.session_state.loop
    stage_before,        \* st.session_state.stage_before
    rpi_before,          \* st.session_state.rpi_before
    feedback_active,     \* st.session_state.feedback_active
    show_updated_input,  \* st.session_state.show_updated_input
    improving,           \* st.session_state.improving
    log,                 \* st.session_state.log
    i,                   \* the countdown variable of the feedback timer (0: not counting)
    healthy_offered,     \* the nested "Start New Session" button is on screen
    ev                   \* the event handled by the last script run, with its inputs

vars == <<loop, stage_before, rpi_before, feedback_active, show_updated_input,
          improving, log, i, healthy_offered, ev>>

session == <<loop, stage_before, rpi_before, feedback_active, show_updated_input,
             improving, log>>

\* ------------------------------------------------------------ pure functions

\* the posture is tested before the EMG level
check_signal_quality_posture_first(hrv, emg_level, posture) ==
    IF hrv < HrvLow \/ hrv > HrvHigh THEN "Poor HRV Signal"
    ELSE IF posture \notin {"aligned", "lean_left", "lean_right", "slouched"} THEN "Posture Not Valid"
    ELSE IF emg_level \notin {"normal", "overactive", "underactive"} THEN "Unrecognized EMG Input"
    ELSE "Good"

check_signal_quality_no_upper(hrv, emg_level, posture) ==
    IF hrv < HrvLow THEN "Poor HRV Signal"
    ELSE IF emg_level \notin {"normal", "overactive", "underactive"} THEN "Unrecognized EMG Input"
    ELSE IF posture \notin {"aligned", "lean_left", "lean_right", "slouched"} THEN "Posture Not Valid"
    ELSE "Good"

check_signal_quality(hrv, emg_level, posture) ==
    IF hrv < HrvLow \/ hrv > HrvHigh THEN "Poor HRV Signal"
    ELSE IF emg_level \notin {"normal", "overactive", "underactive"} THEN "Unrecognized EMG Input"
    ELSE IF posture \notin {"aligned", "lean_left", "lean_right", "slouched"} THEN "Posture Not Valid"
    ELSE "Good"

Min(a, b) == IF a < b THEN a ELSE b


\* the score is returned without min(score, 100)
calculate_rpi_no_clamp(stage, hrv, emg_level) ==
    LET s0 == stage * 33
        s1 == IF hrv < HrvPenaltyBelow THEN s0 + 10 ELSE s0
    IN  IF emg_level = "overactive" THEN s1 + 5
        ELSE IF emg_level = "underactive" THEN s1 + 3
        ELSE s1


\* the base is stage * 3
calculate_rpi_base3(stage, hrv, emg_level) ==
    LET s0 == stage * 3
        s1 == IF hrv < HrvPenaltyBelow THEN s0 + 10 ELSE s0
        s2 == IF emg_level = "overactive" THEN s1 + 5
              ELSE IF emg_level = "underactive" THEN s1 + 3
              ELSE s1
    IN  Min(s2, RpiMax)

\* the low-HRV penalty is 40
calculate_rpi_hrv40(stage, hrv, emg_level) ==
    LET s0 == stage * 33
        s1 == IF hrv < HrvPenaltyBelow THEN s0 + 40 ELSE s0
        s2 == IF emg_level = "overactive" THEN s1 + 5
              ELSE IF emg_level = "underactive" THEN s1 + 3
              ELSE s1
    IN  Min(s2, RpiMax)

calculate_rpi(stage, hrv, emg_level) ==
    LET s0 == stage * 33
        s1 == IF hrv < HrvPenaltyBelow THEN s0 + 10 ELSE s0
        s2 == IF emg_level = "overactive" THEN s1 + 5
              ELSE IF emg_level = "underactive" THEN s1 + 3
              ELSE s1
    IN  Min(s2, RpiMax)

interpret_rpi(rpi) ==
    IF rpi < RelaxedBelow THEN "Relaxed"
    ELSE IF 35 <= rpi /\ rpi < 70 THEN "Alert"
    ELSE "Urgent"

\* the healthy test of the Start Prediction handler
IsHealthy_or(stage, rpi) == stage = 0 \/ rpi < RelaxedBelow

IsHealthy(stage, rpi) == stage = 0 /\ rpi < RelaxedBelow

\* the if / elif / else that names the outcome of a comparison
Status_and(sb, rb, sa, ra) ==
    IF ra < rb /\ sa < sb THEN "Improved"
    ELSE IF ra = rb /\ sa = sb THEN "No Change"
    ELSE "Worsened"

Status(sb, rb, sa, ra) ==
    IF ra < rb \/ sa < sb THEN "Improved"
    ELSE IF ra = rb /\ sa = sb THEN "No Change"
    ELSE "Worsened"

log_summary_prepend(l, lp, sb, rb, sa, ra, status) ==
    <<[Loop |-> lp, StageBefore |-> sb, RPIBefore |-> rb,
       StageAfter |-> sa, RPIAfter |-> ra, Status |-> status]>> \o l

log_summary(l, lp, sb, rb, sa, ra, status) ==
    Append(l, [Loop |-> lp, StageBefore |-> sb, RPIBefore |-> rb,
               StageAfter |-> sa, RPIAfter |-> ra, Status |-> status])

\* the phase of the spec's LoopState, read off the three flags
phase ==
    IF feedback_active THEN "FeedbackActive"
    ELSE IF improving THEN "Improving"
    ELSE IF show_updated_input THEN "AwaitingUpdatedInput"
    ELSE "AwaitingInitialInput"

Event(name, hrv, emg_level, posture, stage, rpi) ==
    [name |-> name, hrv |-> hrv, emg_level |-> emg_level, posture |-> posture,
     stage |-> stage, rpi |-> rpi]

NoInput(name) == Event(name, None, "", "", None, None)

\* ------------------------------------------------------------------- state
Init ==
    /\ loop = 1
    /\ stage_before = None
    /\ rpi_before = None
    /\ feedback_active = FALSE
    /\ show_updated_input = FALSE
    /\ improving = FALSE
    /\ log = <<>>
    /\ i = 0
    /\ healthy_offered = FALSE
    /\ ev = NoInput("init")

\* "Start Prediction & Begin Feedback"; stage is what model.predict returns
StartPrediction_NoStore ==
    /\ ~feedback_active /\ ~show_updated_input
    /\ \E hrv \in HrvValues, emg_level \in EmgOptions, posture \in PostureValues, stage \in Stages :
       LET quality == check_signal_quality(hrv, emg_level, posture)
           rpi == calculate_rpi(stage, hrv, emg_level)
       IN  IF quality # "Good"
           THEN /\ UNCHANGED session
                /\ i' = 0
                /\ healthy_offered' = FALSE
                /\ ev' = Event("submit_initial", hrv, emg_level, posture, None, None)
           ELSE /\ UNCHANGED <<stage_before, rpi_before>>
                /\ feedback_active' = ~IsHealthy(stage, rpi)
                /\ i' = IF IsHealthy(stage, rpi) THEN 0 ELSE FeedbackSeconds
                /\ healthy_offered' = IsHealthy(stage, rpi)
                /\ UNCHANGED <<loop, show_updated_input, improving, log>>
                /\ ev' = Event("submit_initial", hrv, emg_level, posture, stage, rpi)


\* the assessment is stored in the else branch of the healthy test only
StartPrediction_StoreUnhealthy ==
    /\ ~feedback_active /\ ~show_updated_input
    /\ \E hrv \in HrvValues, emg_level \in EmgOptions, posture \in PostureValues, stage \in Stages :
       LET quality == check_signal_quality(hrv, emg_level, posture)
           rpi == calculate_rpi(stage, hrv, emg_level)
       IN  IF quality # "Good"
           THEN /\ UNCHANGED session
                /\ i' = 0
                /\ healthy_offered' = FALSE
                /\ ev' = Event("submit_initial", hrv, emg_level, posture, None, None)
           ELSE /\ stage_before' = IF IsHealthy(stage, rpi) THEN stage_before ELSE stage
                /\ rpi_before' = IF IsHealthy(stage, rpi) THEN rpi_before ELSE rpi
                /\ feedback_active' = ~IsHealthy(stage, rpi)
                /\ i' = IF IsHealthy(stage, rpi) THEN 0 ELSE FeedbackSeconds
                /\ healthy_offered' = IsHealthy(stage, rpi)
                /\ UNCHANGED <<loop, show_updated_input, improving, log>>
                /\ ev' = Event("submit_initial", hrv, emg_level, posture, stage, rpi)

StartPrediction ==
    /\ ~feedback_active /\ ~show_updated_input
    /\ \E hrv \in HrvValues, emg_level \in EmgOptions, posture \in PostureValues, stage \in Stages :
       LET quality == check_signal_quality(hrv, emg_level, posture)
           rpi == calculate_rpi(stage, hrv, emg_level)
       IN  IF quality # "Good"
           THEN /\ UNCHANGED session
                /\ i' = 0
                /\ healthy_offered' = FALSE
                /\ ev' = Event("submit_initial", hrv, emg_level, posture, None, None)
           ELSE /\ stage_before' = stage
                /\ rpi_before' = rpi
                /\ feedback_active' = ~IsHealthy(stage, rpi)
                /\ i' = IF IsHealthy(stage, rpi) THEN 0 ELSE FeedbackSeconds
                /\ healthy_offered' = IsHealthy(stage, rpi)
                /\ UNCHANGED <<loop, show_updated_input, improving, log>>
                /\ ev' = Event("submit_initial", hrv, emg_level, posture, stage, rpi)

\* The "Start New Session" button nested in the Start Prediction branch: the
\* click reruns the script, in that run st.button("Start Prediction ...") is
\* False, so the branch holding the reset is not entered.
HealthyNewSession ==
    /\ healthy_offered
    /\ UNCHANGED session
    /\ i' = 0
    /\ healthy_offered' = FALSE
    /\ ev' = NoInput("new_session_healthy")

\* one second of the countdown: for i in range(30, 0, -1): ...; time.sleep(1)
FeedbackTick ==
    /\ feedback_active
    /\ i > 1
    /\ i' = i - 1
    /\ UNCHANGED <<session, healthy_offered>>
    /\ ev' = NoInput("tick")


\* the countdown leaves the loop one second early
FeedbackComplete_early ==
    /\ feedback_active
    /\ i <= 2
    /\ i' = 0
    /\ feedback_active' = FALSE
    /\ show_updated_input' = TRUE
    /\ UNCHANGED <<loop, stage_before, rpi_before, improving, log, healthy_offered>>
    /\ ev' = NoInput("feedback_complete")


\* the statements after the loop clear feedback_active only
FeedbackComplete_no_show ==
    /\ feedback_active
    /\ i = 1
    /\ i' = 0
    /\ feedback_active' = FALSE
    /\ UNCHANGED <<loop, stage_before, rpi_before, show_updated_input, improving, log,
                   healthy_offered>>
    /\ ev' = NoInput("feedback_complete")

\* the last second, then the statements after the loop
FeedbackComplete ==
    /\ feedback_active
    /\ i = 1
    /\ i' = 0
    /\ feedback_active' = FALSE
    /\ show_updated_input' = TRUE
    /\ UNCHANGED <<loop, stage_before, rpi_before, improving, log, healthy_offered>>
    /\ ev' = NoInput("feedback_complete")

\* "Analyze Updated Signal"
AnalyzeUpdated ==
    /\ ~feedback_active /\ show_updated_input
    /\ Len(log) < MaxLog
    /\ \E hrv \in HrvValues, emg_level \in EmgOptions, posture \in PostureValues, stage_after \in Stages :
       LET rpi_after == calculate_rpi(stage_after, hrv, emg_level)
           status == Status(stage_before, rpi_before, stage_after, rpi_after)
           improving_now == improving \/ status = "Improved"
       IN  /\ improving_now \/ loop < MaxLoop
           /\ improving' = improving_now
           /\ log' = log_summary(log, loop, stage_before, rpi_before,
                                 stage_after, rpi_after, status)
           /\ IF ~improving_now
              THEN /\ rpi_before' = rpi_after
                   /\ stage_before' = stage_after
                   /\ loop' = loop + 1
                   /\ show_updated_input' = FALSE
                   /\ feedback_active' = TRUE
                   /\ i' = FeedbackSeconds
              ELSE /\ UNCHANGED <<rpi_before, stage_before, loop,
                                  show_updated_input, feedback_active>>
                   /\ i' = 0
           /\ healthy_offered' = FALSE
           /\ ev' = Event("submit_updated", hrv, emg_level, posture, stage_after, rpi_after)

\* "Start New Session" of the improving block: every key deleted, rerun,
\* and the session-state init at the top of the script runs again
NewSession ==
    /\ improving
    /\ ~feedback_active
    /\ loop' = 1
    /\ stage_before' = None
    /\ rpi_before' = None
    /\ feedback_active' = FALSE
    /\ show_updated_input' = FALSE
    /\ improving' = FALSE
    /\ log' = <<>>
    /\ i' = 0
    /\ healthy_offered' = FALSE
    /\ ev' = NoInput("new_session")

Next ==
    \/ StartPrediction
    \/ HealthyNewSession
    \/ FeedbackTick
    \/ FeedbackComplete
    \/ AnalyzeUpdated
    \/ NewSession

Spec == Init /\ [][Next]_vars


\* ------------------------------------------------ the utility functions alone
\* One call of check_signal_quality or calculate_rpi on arguments drawn from
\* the whole range of the HRV input and from recognized and unrecognized
\* categories; ev holds the arguments and the returned values.
PureHrv == HrvMin..HrvMax
PureEmg == EmgOptions \cup {"unknown"}
PurePosture == PostureOptions \cup {"unknown"}

InitPure ==
    /\ loop = 1
    /\ stage_before = None
    /\ rpi_before = None
    /\ feedback_active = FALSE
    /\ show_updated_input = FALSE
    /\ improving = FALSE
    /\ log = <<>>
    /\ i = 0
    /\ healthy_offered = FALSE
    /\ \E hrv \in PureHrv, emg_level \in PureEmg, posture \in PurePosture, stage \in Stages :
          ev = [name |-> "args", hrv |-> hrv, emg_level |-> emg_level, posture |-> posture,
                stage |-> stage, rpi |-> None, quality |-> "", calls |-> 0]

CallCheckSignalQuality ==
    /\ ev.calls < MaxCalls
    /\ ev' = [ev EXCEPT !.name = "check_signal_quality",
                        !.quality = check_signal_quality(ev.hrv, ev.emg_level, ev.posture),
                        !.calls = @ + 1]
    /\ UNCHANGED <<session, i, healthy_offered>>

CallCalculateRpi ==
    /\ ev.calls < MaxCalls
    /\ ev' = [ev EXCEPT !.name = "calculate_rpi",
                        !.rpi = calculate_rpi(ev.stage, ev.hrv, ev.emg_level),
                        !.calls = @ + 1]
    /\ UNCHANGED <<session, i, healthy_offered>>

NextPure ==
    \/ CallCheckSignalQuality
    \/ CallCalculateRpi

SpecPure == InitPure /\ [][NextPure]_vars


\* ------------------------------------------- one more comparison in Improving
\* "Analyze Updated Signal" pressed in Improving when the log already holds
\* MaxLog entries: the same handler, explored one comparison deeper.
AnalyzeAgain ==
    /\ ~feedback_active /\ show_updated_input
    /\ improving
    /\ Len(log) = MaxLog
    /\ \E hrv \in HrvValues, emg_level \in EmgOptions, posture \in PostureValues, stage_after \in Stages :
       LET rpi_after == calculate_rpi(stage_after, hrv, emg_level)
           status == Status(stage_before, rpi_before, stage_after, rpi_after)
       IN  /\ improving' = (improving \/ status = "Improved")
           /\ log' = log_summary(log, loop, stage_before, rpi_before,
                                 stage_after, rpi_after, status)
           /\ UNCHANGED <<rpi_before, stage_before, loop, show_updated_input, feedback_active>>
           /\ i' = 0
           /\ healthy_offered' = FALSE
           /\ ev' = Event("submit_updated", hrv, emg_level, posture, stage_after, rpi_after)

NextDeep ==
    \/ Next
    \/ AnalyzeAgain

SpecDeep == Init /\ [][NextDeep]_vars

TypeOK ==
    /\ loop \in 1..(MaxLoop + 1)
    /\ stage_before \in Stages \cup {None}
    /\ rpi_before \in (0..RpiMax) \cup {None}
    /\ feedback_active \in BOOLEAN /\ show_updated_input \in BOOLEAN /\ improving \in BOOLEAN
    /\ Len(log) <= MaxLog
    /\ i \in 0..FeedbackSeconds

\* ------------------------------------------------------------------ claims
\* a sample that fails validation, in the words of the claims
SampleFails(e) ==
    \/ e.hrv < 20 \/ e.hrv > 120
    \/ e.emg_level \notin {"normal", "overactive", "underactive"}
    \/ e.posture \notin {"aligned", "lean_left", "lean_right", "slouched"}

\* the step is a comparison that appended an entry with one of these statuses
Compared(statuses) ==
    /\ ev'.name = "submit_updated"
    /\ Len(log') = Len(log) + 1
    /\ log'[Len(log')].Status \in statuses

\* C1: in AwaitingUpdatedInput a submit-updated event with a sample that fails
\* validation appends no LogEntry and leaves loopNumber, stageBefore, rpiBefore
\* and phase unchanged.
C1_InvalidUpdatedBlocked ==
    [][(phase = "AwaitingUpdatedInput" /\ ev'.name = "submit_updated" /\ SampleFails(ev'))
        => (/\ log' = log
            /\ loop' = loop
            /\ stage_before' = stage_before
            /\ rpi_before' = rpi_before
            /\ phase' = phase)]_vars

\* C2: once the phase is Improving, every event other than start-new-session
\* leaves phase, loopNumber, stageBefore, rpiBefore and the SessionLog as they are.
C2_ImprovingFrozen ==
    [][(phase = "Improving" /\ ev'.name # "new_session")
        => (/\ phase' = "Improving"
            /\ loop' = loop
            /\ stage_before' = stage_before
            /\ rpi_before' = rpi_before
            /\ log' = log)]_vars

\* C3: every comparison whose outcome is Worsened or NoChange sets
\* stageBefore := stageAfter, rpiBefore := rpiAfter and moves the phase to
\* FeedbackActive; only an Improved comparison does not re-enter the feedback phase.
C3_NotImprovedLoops ==
    [][(Compared({"Worsened", "No Change"})
          => (/\ stage_before' = ev'.stage
              /\ rpi_before' = ev'.rpi
              /\ phase' = "FeedbackActive"))
       /\ ((ev'.name = "submit_updated" /\ phase' # "FeedbackActive")
          => Compared({"Improved"}))]_vars

\* C4: loopNumber increases by exactly 1 on every transition that appends a
\* Worsened or NoChange entry, and is unchanged by every Improved transition,
\* by every event in AwaitingInitialInput and by the feedback-timer steps.
C4_LoopCounter ==
    [][/\ Compared({"Worsened", "No Change"}) => loop' = loop + 1
       /\ Compared({"Improved"}) => loop' = loop
       /\ phase = "AwaitingInitialInput" => loop' = loop
       /\ ev'.name \in {"tick", "feedback_complete"} => loop' = loop]_vars

\* C5: every comparison appends one entry whose status is Improved iff
\* rpiAfter < rpiBefore or stageAfter < stageBefore, NoChange iff not Improved
\* and both values equal, Worsened otherwise; the entry records the current
\* loopNumber and the four compared values.
C5_Classification ==
    [][ev'.name = "submit_updated"
        => LET sa == ev'.stage
               ra == ev'.rpi
               improved == ra < rpi_before \/ sa < stage_before
               same == ra = rpi_before /\ sa = stage_before
           IN  log' = Append(log,
                        [Loop |-> loop,
                         StageBefore |-> stage_before, RPIBefore |-> rpi_before,
                         StageAfter |-> sa, RPIAfter |-> ra,
                         Status |-> IF improved THEN "Improved"
                                    ELSE IF same THEN "No Change"
                                    ELSE "Worsened"])]_vars

\* a comparison found improved on one metric only (lower rpi, same stage)
C5_Witness ==
    /\ ev.name = "submit_updated"
    /\ Len(log) >= 1
    /\ log[Len(log)].Status = "Improved"
    /\ log[Len(log)].RPIAfter < log[Len(log)].RPIBefore
    /\ log[Len(log)].StageAfter = log[Len(log)].StageBefore

\* C6: a validated initial submission moves the phase to FeedbackActive iff
\* not (stage = 0 and rpi < 35); on a healthy assessment the phase does not
\* become FeedbackActive, no entry is appended and loopNumber stays 1.
C6_HealthyGate ==
    [][(ev'.name = "submit_initial" /\ ~SampleFails(ev'))
        => LET healthy == ev'.stage = 0 /\ ev'.rpi < 35
           IN  /\ (phase' = "FeedbackActive") <=> ~healthy
               /\ healthy => (log' = log /\ loop' = 1 /\ loop = 1)]_vars

\* a validated initial sample of stage 1 and rpi 33 (below 35, yet not healthy)
\* started the feedback phase
C6_Witness ==
    /\ ev.name = "submit_initial"
    /\ ev.stage = 1 /\ ev.rpi = 33
    /\ phase = "FeedbackActive"

\* C7: every step leaves the SessionLog unchanged, or extends it by exactly one
\* entry at the end with the earlier entries unchanged and in order, or, only
\* on start-new-session, empties it.
C7_AppendOnly ==
    [][\/ log' = log
       \/ /\ Len(log') = Len(log) + 1
          /\ SubSeq(log', 1, Len(log)) = log
       \/ /\ log' = <<>>
          /\ ev'.name = "new_session"]_vars

\* a second entry was appended behind a first one
C7_Witness ==
    /\ ev.name = "submit_updated"
    /\ Len(log) = 2
    /\ log[1] # log[2]

\* C8: start-new-session, from every state in which it is offered (the healthy
\* outcome and Improving), results in the fresh initial state: loopNumber 1,
\* stageBefore and rpiBefore null, phase AwaitingInitialInput, improvement flag
\* cleared and SessionLog empty.
C8_ResetAllOrNothing ==
    [][ev'.name \in {"new_session", "new_session_healthy"}
        => (/\ loop' = 1
            /\ stage_before' = None
            /\ rpi_before' = None
            /\ phase' = "AwaitingInitialInput"
            /\ improving' = FALSE
            /\ log' = <<>>)]_vars

\* C9: stageBefore and rpiBefore are non-null whenever the phase is not
\* AwaitingInitialInput.
C9_BeforeNonNull ==
    phase # "AwaitingInitialInput" => (stage_before # None /\ rpi_before # None)

\* the second feedback phase, entered by the loop continuation
C9_Witness ==
    /\ phase = "FeedbackActive"
    /\ loop = 2
    /\ stage_before # None /\ rpi_before # None

\* C10: in AwaitingInitialInput a submit-initial event with a sample that fails
\* validation leaves stageBefore, rpiBefore, phase, loopNumber and the
\* SessionLog unchanged, and neither the classifier nor the scorer is invoked.
C10_InvalidInitialBlocked ==
    [][(phase = "AwaitingInitialInput" /\ ev'.name = "submit_initial" /\ SampleFails(ev'))
        => (/\ stage_before' = stage_before
            /\ rpi_before' = rpi_before
            /\ phase' = "AwaitingInitialInput"
            /\ loop' = loop
            /\ log' = log
            /\ ev'.stage = None /\ ev'.rpi = None)]_vars

\* an out-of-range sample was submitted while an earlier assessment was stored
C10_Witness ==
    /\ ev.name = "submit_initial"
    /\ ev.hrv > 120
    /\ ev.stage = None
    /\ stage_before = 0
    /\ phase = "AwaitingInitialInput"

\* C11: every entry into FeedbackActive starts a countdown at 30; while the phase
\* is FeedbackActive the only steps are the one-second decrements (30 down to 1),
\* no submit-initial, submit-updated or start-new-session is accepted, and the
\* step taken at 1 moves the phase to AwaitingUpdatedInput; stageBefore,
\* rpiBefore, loopNumber and the SessionLog are unchanged across the phase.
C11_FeedbackCountdown ==
    [][/\ (phase # "FeedbackActive" /\ phase' = "FeedbackActive") => i' = 30
       /\ phase = "FeedbackActive"
            => /\ i \in 1..30
               /\ ev'.name \in {"tick", "feedback_complete"}
               /\ i > 1 => (i' = i - 1 /\ phase' = "FeedbackActive" /\ ev'.name = "tick")
               /\ i = 1 => (phase' = "AwaitingUpdatedInput" /\ ev'.name = "feedback_complete")
               /\ stage_before' = stage_before
               /\ rpi_before' = rpi_before
               /\ loop' = loop
               /\ log' = log]_vars

\* the countdown of the second feedback phase ran out
C11_Witness ==
    /\ ev.name = "feedback_complete"
    /\ phase = "AwaitingUpdatedInput"
    /\ loop = 2
    /\ Len(log) = 1

\* C12 (as claimed): an initial submission whose assessment has stage = 0 and
\* rpi < 35 leaves stageBefore and rpiBefore at their previous values, so they
\* are null in every state that has not entered the feedback phase.
C12_StoredOnlyIfUnhealthy ==
    [][(ev'.name = "submit_initial" /\ ~SampleFails(ev')
          /\ ev'.stage = 0 /\ ev'.rpi < 35)
        => (stage_before' = stage_before /\ rpi_before' = rpi_before)]_vars

\* C12 (amended): every validated initial submission stores its assessment in
\* stageBefore and rpiBefore, healthy or not; only the transition to
\* FeedbackActive depends on the healthy test.
C12_AlwaysStored ==
    [][(ev'.name = "submit_initial" /\ ~SampleFails(ev'))
        => (/\ stage_before' = ev'.stage
            /\ rpi_before' = ev'.rpi
            /\ (ev'.stage = 0 /\ ev'.rpi < 35) => phase' = "AwaitingInitialInput")]_vars

\* a healthy assessment is stored while the phase is still AwaitingInitialInput
C12_Witness ==
    /\ ev.name = "submit_initial"
    /\ ev.stage = 0 /\ ev.rpi = 10
    /\ stage_before = 0 /\ rpi_before = 10
    /\ phase = "AwaitingInitialInput"

\* C13: for every stage in 0..3, every hrv and every recognized emgLevel the
\* score is min(100, 33*stage + (10 if hrv < 50) + (5 if overactive, 3 if
\* underactive)), lies in [0, 100], is 0 for stage 0 without penalties and 81
\* for stage 2, hrv 40, overactive; adding the bonuses in the other order
\* gives the same value.
C13_Score ==
    (ev.name = "calculate_rpi" /\ ev.emg_level \in {"normal", "overactive", "underactive"})
      => LET emg_bonus == IF ev.emg_level = "overactive" THEN 5
                          ELSE IF ev.emg_level = "underactive" THEN 3 ELSE 0
             hrv_bonus == IF ev.hrv < 50 THEN 10 ELSE 0
             sum == emg_bonus + (hrv_bonus + 33 * ev.stage)
         IN  /\ ev.rpi = (IF sum > 100 THEN 100 ELSE sum)
             /\ ev.rpi >= 0 /\ ev.rpi <= 100
             /\ (ev.stage = 0 /\ ev.hrv >= 50 /\ ev.emg_level = "normal") => ev.rpi = 0
             /\ (ev.stage = 2 /\ ev.hrv = 40 /\ ev.emg_level = "overactive") => ev.rpi = 81

\* the scenario stage 2, hrv 40, overactive was scored 81
C13_Witness ==
    /\ ev.name = "calculate_rpi"
    /\ ev.stage = 2 /\ ev.hrv = 40 /\ ev.emg_level = "overactive"
    /\ ev.rpi = 81

\* C14: validation succeeds iff 20 <= hrv <= 120 and emgLevel and posture are
\* recognized; otherwise the reported error is the first violated check in the
\* order HRV, EMG, posture; validating again a sample found valid succeeds again.
C14_Validate ==
    [][ev'.name = "check_signal_quality"
        => LET hrv_ok == 20 <= ev'.hrv /\ ev'.hrv <= 120
               emg_ok == ev'.emg_level \in {"normal", "overactive", "underactive"}
               posture_ok == ev'.posture \in {"aligned", "lean_left", "lean_right", "slouched"}
           IN  /\ (ev'.quality = "Good") <=> (hrv_ok /\ emg_ok /\ posture_ok)
               /\ ~hrv_ok => ev'.quality = "Poor HRV Signal"
               /\ (hrv_ok /\ ~emg_ok) => ev'.quality = "Unrecognized EMG Input"
               /\ (hrv_ok /\ emg_ok /\ ~posture_ok) => ev'.quality = "Posture Not Valid"
               /\ ev.quality = "Good" => ev'.quality = "Good"
               /\ <<ev'.hrv, ev'.emg_level, ev'.posture>> = <<ev.hrv, ev.emg_level, ev.posture>>]_vars

\* a sample on the upper HRV limit was validated twice and found good
C14_Witness ==
    /\ ev.name = "check_signal_quality"
    /\ ev.calls = 2
    /\ ev.hrv = 120
    /\ ev.rpi = None
    /\ ev.quality = "Good"

\* C15: every phase change is one of AwaitingInitialInput -> FeedbackActive (a
\* validated initial sample that is not healthy), FeedbackActive ->
\* AwaitingUpdatedInput (timer expiry), AwaitingUpdatedInput -> FeedbackActive
\* (Worsened / NoChange), AwaitingUpdatedInput -> Improving (Improved), or a
\* reset to AwaitingInitialInput by start-new-session; AwaitingUpdatedInput is
\* entered only from a feedback phase whose countdown ran out.
C15_PhaseEdges ==
    [][phase' # phase
        => \/ /\ phase = "AwaitingInitialInput" /\ phase' = "FeedbackActive"
              /\ ev'.name = "submit_initial" /\ ~SampleFails(ev')
              /\ ~(ev'.stage = 0 /\ ev'.rpi < 35)
           \/ /\ phase = "FeedbackActive" /\ phase' = "AwaitingUpdatedInput"
              /\ ev'.name = "feedback_complete" /\ i = 1
           \/ /\ phase = "AwaitingUpdatedInput" /\ phase' = "FeedbackActive"
              /\ Compared({"Worsened", "No Change"})
           \/ /\ phase = "AwaitingUpdatedInput" /\ phase' = "Improving"
              /\ Compared({"Improved"})
           \/ /\ phase' = "AwaitingInitialInput"
              /\ ev'.name = "new_session"]_vars

\* a session went round every edge and was reset from Improving
C15_Witness ==
    /\ ev.name = "new_session"
    /\ phase = "AwaitingInitialInput"
    /\ log = <<>>

\* C16: the i-th entry of the SessionLog has loop = i, so no two entries share a
\* loop number, and the log length is loopNumber - 1 while the phase is
\* AwaitingInitialInput, FeedbackActive or AwaitingUpdatedInput and is
\* loopNumber while the phase is Improving.
C16_OneEntryPerLoop ==
    /\ \A k \in 1..Len(log) : log[k].Loop = k
    /\ phase \in {"AwaitingInitialInput", "FeedbackActive", "AwaitingUpdatedInput"}
         => Len(log) = loop - 1
    /\ phase = "Improving" => Len(log) = loop

\* C17: for consecutive entries e, e2 of the log where e is Worsened or
\* NoChange, e2.stageBefore = e.stageAfter, e2.rpiBefore = e.rpiAfter and
\* e2.loop = e.loop + 1; and the first entry's stageBefore / rpiBefore are the
\* assessment of the accepted initial sample, which is stored on acceptance and
\* kept until the first comparison.
C17_LogChains ==
    /\ [](\A k \in 1..(Len(log) - 1) :
            log[k].Status \in {"Worsened", "No Change"}
              => /\ log[k + 1].StageBefore = log[k].StageAfter
                 /\ log[k + 1].RPIBefore = log[k].RPIAfter
                 /\ log[k + 1].Loop = log[k].Loop + 1)
    /\ [][/\ (ev'.name = "submit_initial" /\ phase' = "FeedbackActive")
               => (stage_before' = ev'.stage /\ rpi_before' = ev'.rpi)
          /\ (log = <<>> /\ log' = <<>> /\ phase # "AwaitingInitialInput")
               => (stage_before' = stage_before /\ rpi_before' = rpi_before)
          /\ (log = <<>> /\ Len(log') = 1)
               => (log'[1].StageBefore = stage_before /\ log'[1].RPIBefore = rpi_before)]_vars

\* C18: in every comparison a higher stage comes with a higher rpi (and a lower
\* stage with a lower rpi), whatever hrv and emgLevel were, clamping included;
\* so no comparison has one metric improved and the other worsened, and the
\* Improved test agrees with rpiAfter < rpiBefore alone.
C18_RpiMonotone ==
    [][ev'.name = "submit_updated"
        => LET sa == ev'.stage
               ra == ev'.rpi
           IN  /\ sa > stage_before => ra > rpi_before
               /\ sa < stage_before => ra < rpi_before
               /\ ~(ra < rpi_before /\ sa > stage_before)
               /\ ~(sa < stage_before /\ ra > rpi_before)
               /\ (ra < rpi_before \/ sa < stage_before) <=> (ra < rpi_before)
               /\ (log'[Len(log')].Status = "Improved") <=> (ra < rpi_before)]_vars

\* stage 2 at its highest score (81) was followed by stage 3 clamped to 100
C18_Witness ==
    /\ ev.name = "submit_updated"
    /\ Len(log) >= 1
    /\ log[Len(log)].StageBefore = 2 /\ log[Len(log)].RPIBefore = 81
    /\ log[Len(log)].StageAfter = 3 /\ log[Len(log)].RPIAfter = 100
    /\ log[Len(log)].Status = "Worsened"

\* C19: every assessment with stage 0 has rpi <= 15, so it is healthy and in
\* the Relaxed band; a validated initial submission starts the feedback phase
\* iff the predicted stage is not 0, the rpi < 35 conjunct never deciding.
C19_StageZeroHealthy ==
    [][(ev'.name \in {"submit_initial", "submit_updated"} /\ ev'.stage = 0
            => (ev'.rpi <= 15 /\ ev'.rpi < 35 /\ interpret_rpi(ev'.rpi) = "Relaxed"))
       /\ ((ev'.name = "submit_initial" /\ ~SampleFails(ev'))
            => ((phase' = "FeedbackActive") <=> (ev'.stage # 0)))]_vars

\* stage 0 with both penalties scored 15 and was found healthy
C19_Witness ==
    /\ ev.name = "submit_initial"
    /\ ev.stage = 0 /\ ev.rpi = 15
    /\ healthy_offered
    /\ phase = "AwaitingInitialInput"
====
